---- MODULE Spec2Model ----
(***************************************************************************)
(* A model of src/main.rs (1brc-rs): the per-station accumulator           *)
(* WeatherStation, the memory-mapped file MmappedFile and its partitioner, *)
(* the fixed-point parser parse_measurement, the scanner thread_runner and *)
(* the control flow of main.                                               *)
(*                                                                         *)
(* Bytes are the integers 0..255.  A byte slice is a sequence of bytes; an *)
(* offset o of the source (0-based) is position o+1 of the sequence.       *)
(***************************************************************************)
EXTENDS Integers, Sequences, FiniteSets, TLC

VARIABLES
    pc,               \* position of the modelled run
    data,             \* the mapped file content / the slice handed to a function
    num_partitions,   \* argument of partition_into_slices
    partitions,       \* Vec<&[u8]> returned by partition_into_slices
    measurement,      \* argument of parse_measurement
    parsed,           \* result of parse_measurement
    stations,         \* HashMap<&[u8], WeatherStation> returned by thread_runner
    ws1, ws2, fresh,  \* WeatherStation accumulators
    s1, s2, rest,     \* the measurements added to ws1, to ws2, still to add to fresh
    exact,            \* the arithmetic sum of everything folded into ws1 (two limbs)
    overflow_checks,  \* build profile: TRUE = arithmetic overflow panics (debug)
    env,              \* what the operating system answers to open and mmap
    mapping,          \* life cycle of the OS mapping
    printed,          \* the lines main has written to standard output
    exit_status       \* process exit status

vars == <<pc, data, num_partitions, partitions, measurement, parsed, stations,
          ws1, ws2, fresh, s1, s2, rest, exact, overflow_checks, env, mapping,
          printed, exit_status>>

(***************************************************************************)
(* Program constants.                                                      *)
(***************************************************************************)
NUM_THREADS == 4
NEWLINE == 10
SEMICOLON == 59
MINUS == 45
DOT == 46
ZERO == 48
I16_MAX == 32767
I16_MIN == -32768
I32_MAX == 2147483647

(***************************************************************************)
(* Bounds of the model.                                                    *)
(***************************************************************************)
MaxLen == 9          \* longest content handed to partition_into_slices
MaxParts == 5        \* largest partition count handed to partition_into_slices
MaxIntDigits == 3    \* most integer digits of a parsed measurement

Min2(a, b) == IF a < b THEN a ELSE b
Max2(a, b) == IF a > b THEN a ELSE b

\* All sequences over S of length lo..hi.
SeqsOf(S, lo, hi) == UNION {[1..k -> S] : k \in lo..hi}

(***************************************************************************)
(* Fixed-width integers.                                                   *)
(***************************************************************************)
WrapI16(x) == ((x + 32768) % 65536) - 32768
WrapU8(x) == x % 256
InI16(x) == I16_MIN <= x /\ x <= I16_MAX

(***************************************************************************)
(* MmappedFile::partition_into_slices.  A slice is kept as from_raw_parts  *)
(* builds it: a start offset into the mapping and a length.                *)
(***************************************************************************)
\* The bytes a slice denotes.
SliceBytes(content, slice) ==
    SubSeq(content, slice.start + 1, slice.start + slice.len)

\* the scan ending at the newline instead of after it
RECURSIVE ScanStopBeforeNewline(_, _, _)
ScanStopBeforeNewline(content, end, stop) ==
    IF end < Len(content) /\ ~stop
    THEN IF content[end + 1] = NEWLINE
         THEN end
         ELSE ScanStopBeforeNewline(content, end + 1, FALSE)
    ELSE end

\* while end < self.len && !stop { if data[end] == b'\n' { stop = true } end += 1 }
RECURSIVE ScanToNewline(_, _, _)
ScanToNewline(content, end, stop) ==
    IF end < Len(content) /\ ~stop
    THEN ScanToNewline(content, end + 1, content[end + 1] = NEWLINE)
    ELSE end

\* the candidate end without its clamp to self.len
NoClampEnd(content, start, partition_size) ==
    start + partition_size

\* let mut end = start + partition_size; if end > self.len { end = self.len }
ClampEnd(content, start, partition_size) ==
    IF start + partition_size > Len(content)
    THEN Len(content)
    ELSE start + partition_size

\* for _ in 0..num_partitions { ... partitions.push(slice); start = end }
RECURSIVE PartitionLoop(_, _, _, _, _)
PartitionLoop(content, partition_size, todo, start, acc) ==
    IF todo = 0
    THEN acc
    ELSE LET end == ScanToNewline(content,
                                  ClampEnd(content, start, partition_size), FALSE)
         IN  PartitionLoop(content, partition_size, todo - 1, end,
                           Append(acc, [start |-> start, len |-> end - start]))

partition_into_slices(content, n) ==
    PartitionLoop(content, Len(content) \div n, n, 0, <<>>)

(***************************************************************************)
(* parse_measurement.  The result carries the i16 the release build        *)
(* returns (wrapping arithmetic) and whether any intermediate value left   *)
(* the range of its type, which aborts a build with overflow checks.       *)
(***************************************************************************)
\* (measurement[i] - b'0') as i16
DigitOf(byte) == WrapU8(byte - ZERO)

\* the loop without its skip of '.'
RECURSIVE ParseLoopNoSkip(_, _, _, _)
ParseLoopNoSkip(m, i, value, overflow) ==
    IF i < Len(m)
    THEN LET exactv == value * 10 + DigitOf(m[i + 1])
         IN  ParseLoopNoSkip(m, i + 1, WrapI16(exactv),
                       overflow \/ m[i + 1] < ZERO \/ ~InI16(exactv))
    ELSE [value |-> value, overflow |-> overflow]

\* while i < measurement.len() { .. }, from position i (0-based) on
RECURSIVE ParseLoop(_, _, _, _)
ParseLoop(m, i, value, overflow) ==
    IF i < Len(m)
    THEN IF m[i + 1] = DOT
         THEN ParseLoop(m, i + 1, value, overflow)
         ELSE LET exactv == value * 10 + DigitOf(m[i + 1])
              IN  ParseLoop(m, i + 1, WrapI16(exactv),
                            overflow \/ m[i + 1] < ZERO \/ ~InI16(exactv))
    ELSE [value |-> value, overflow |-> overflow]

\* if neg { value *= -1 }
Negate(neg, r) ==
    IF neg
    THEN [value |-> WrapI16(-r.value), overflow |-> r.overflow \/ ~InI16(-r.value)]
    ELSE r

\* measurement[0] on an empty slice is an index panic
ParseIndexPanics(m) == Len(m) = 0

parse_measurement(m) ==
    LET neg == m[1] = MINUS
    IN  Negate(neg, ParseLoop(m, IF neg THEN 1 ELSE 0, 0, FALSE))

(***************************************************************************)
(* WeatherStation.  min and max are i16, sum is i32, count is u32.  The    *)
(* additions are the wrapping ones of a build without overflow checks;     *)
(* AddOverflowsI32 tells when a build with overflow checks panics instead. *)
(* The model keeps count below 2^31, so its u32 never wraps.               *)
(***************************************************************************)
I32_MIN == -I32_MAX - 1

AddOverflowsI32(a, b) ==
    \/ b > 0 /\ a > I32_MAX - b
    \/ b < 0 /\ a < I32_MIN - b

\* a + b modulo 2^32, as i32
WrapAddI32(a, b) ==
    IF b > 0 /\ a > I32_MAX - b
    THEN (a - I32_MAX - 1) + (b - I32_MAX - 1)
    ELSE IF b < 0 /\ a < I32_MIN - b
         THEN (a + I32_MAX + 1) + (b + I32_MAX + 1)
         ELSE a + b

\* WeatherStation::new
new == [min |-> I16_MAX, max |-> I16_MIN, sum |-> 0, count |-> 0]

\* add_measurement without its update of min
add_measurement_no_min(ws, m) ==
    [min |-> ws.min,
     max |-> Max2(ws.max, m),
     sum |-> WrapAddI32(ws.sum, m),
     count |-> ws.count + 1]

\* WeatherStation::add_measurement
add_measurement(ws, m) ==
    [min |-> Min2(ws.min, m),
     max |-> Max2(ws.max, m),
     sum |-> WrapAddI32(ws.sum, m),
     count |-> ws.count + 1]

\* merge without its update of count
merge_no_count(ws, other) ==
    [min |-> Min2(ws.min, other.min),
     max |-> Max2(ws.max, other.max),
     sum |-> WrapAddI32(ws.sum, other.sum),
     count |-> ws.count]

\* WeatherStation::merge
merge(ws, other) ==
    [min |-> Min2(ws.min, other.min),
     max |-> Max2(ws.max, other.max),
     sum |-> WrapAddI32(ws.sum, other.sum),
     count |-> ws.count + other.count]

(***************************************************************************)
(* Binary floating point, for the getters min(), max() (f32) and mean()    *)
(* (f64).  A float is [sign, exp, mant]: sign in {-1, 0, 1}, mant the      *)
(* significand's bits, most significant first and starting with 1 (24 bits *)
(* for f32, 53 for f64), and the value is sign * 0.mant * 2^exp.  Zero is  *)
(* [sign |-> 0, exp |-> 0, mant |-> <<>>].  The values met here are far    *)
(* from the exponent limits, so there are no subnormals or infinities.     *)
(***************************************************************************)
F32_BITS == 24
F64_BITS == 53

FloatZero == [sign |-> 0, exp |-> 0, mant |-> <<>>]

Zeros(k) == [i \in 1..k |-> 0]

\* the binary digits of n >= 1, most significant first
RECURSIVE BitsOfNat(_)
BitsOfNat(n) == IF n = 0 THEN <<>> ELSE Append(BitsOfNat(n \div 2), n % 2)

Abs(n) == IF n < 0 THEN -n ELSE n

\* n as f32 / n as f64: exact, n has at most p bits
FloatFromInt(n, p) ==
    IF n = 0
    THEN FloatZero
    ELSE LET bits == BitsOfNat(Abs(n))
         IN  [sign |-> IF n < 0 THEN -1 ELSE 1,
              exp |-> Len(bits),
              mant |-> bits \o Zeros(p - Len(bits))]

\* bits + 1, as a sequence one bit longer when it carries out
RECURSIVE BitsIncrement(_)
BitsIncrement(bits) ==
    IF bits = <<>>
    THEN <<1>>
    ELSE IF bits[Len(bits)] = 0
         THEN SubSeq(bits, 1, Len(bits) - 1) \o <<1>>
         ELSE LET up == BitsIncrement(SubSeq(bits, 1, Len(bits) - 1))
              IN  up \o <<0>>

\* Long division of the bit string num by d >= 1: the quotient's bits (as
\* many as num has) and the remainder.
RECURSIVE LongDivide(_, _, _, _)
LongDivide(num, d, quotient, remainder) ==
    IF num = <<>>
    THEN [q |-> quotient, r |-> remainder]
    ELSE LET r2 == 2 * remainder + Head(num)
         IN  IF r2 >= d
             THEN LongDivide(Tail(num), d, Append(quotient, 1), r2 - d)
             ELSE LongDivide(Tail(num), d, Append(quotient, 0), r2)

LeadingZeros(bits) ==
    IF \A i \in 1..Len(bits) : bits[i] = 0
    THEN Len(bits)
    ELSE (CHOOSE i \in 1..Len(bits) :
              bits[i] = 1 /\ \A j \in 1..(i - 1) : bits[j] = 0) - 1

\* x / d rounded to the nearest float of p bits, ties to even (IEEE 754
\* division by the exactly represented integer d, 1 <= d < 2^29).
FloatDiv(x, d, p) ==
    IF x.sign = 0
    THEN FloatZero
    ELSE LET guard == Len(BitsOfNat(d)) + 1
             res == LongDivide(x.mant \o Zeros(guard), d, <<>>, 0)
             z == LeadingZeros(res.q)
             sig == SubSeq(res.q, z + 1, Len(res.q))
             kept == SubSeq(sig, 1, p)
             round == sig[p + 1] = 1
             sticky == res.r # 0 \/ \E i \in (p + 2)..Len(sig) : sig[i] = 1
             up == round /\ (sticky \/ kept[p] = 1)
             inc == BitsIncrement(kept)
         IN  IF ~up
             THEN [sign |-> x.sign, exp |-> x.exp - z, mant |-> kept]
             ELSE IF Len(inc) > p
                  THEN [sign |-> x.sign, exp |-> x.exp - z + 1,
                        mant |-> SubSeq(inc, 1, p)]
                  ELSE [sign |-> x.sign, exp |-> x.exp - z, mant |-> inc]

\* f32 as f64: exact
Widen(x) ==
    IF x.sign = 0
    THEN FloatZero
    ELSE [x EXCEPT !.mant = x.mant \o Zeros(F64_BITS - Len(x.mant))]

\* a < b for bit strings of one length
BitsLess(a, b) ==
    \E i \in 1..Len(a) :
        /\ a[i] < b[i]
        /\ \A j \in 1..(i - 1) : a[j] = b[j]

\* |a| < |b| for non-zero floats of one width
MagnitudeLess(a, b) ==
    \/ a.exp < b.exp
    \/ a.exp = b.exp /\ BitsLess(a.mant, b.mant)

\* a < b for floats of one width
FloatLess(a, b) ==
    IF a.sign # b.sign
    THEN a.sign < b.sign
    ELSE IF a.sign = 0
         THEN FALSE
         ELSE IF a.sign = 1
              THEN MagnitudeLess(a, b)
              ELSE MagnitudeLess(b, a)

FloatLe(a, b) == ~FloatLess(b, a)

\* WeatherStation::min: self.min as f32 / 10.0
min(ws) == FloatDiv(FloatFromInt(ws.min, F32_BITS), 10, F32_BITS)

\* WeatherStation::max: self.max as f32 / 10.0
max(ws) == FloatDiv(FloatFromInt(ws.max, F32_BITS), 10, F32_BITS)

\* WeatherStation::mean: self.sum as f64 / self.count as f64 / 10.0
mean(ws) ==
    FloatDiv(FloatDiv(FloatFromInt(ws.sum, F64_BITS), ws.count, F64_BITS),
             10, F64_BITS)

(***************************************************************************)
(* thread_runner.  The table is a function from station names (byte        *)
(* sequences) to WeatherStation.  The result also tells whether the scan   *)
(* panicked: a slice index out of range, an empty measurement, or, in a    *)
(* build with overflow checks, an arithmetic overflow.  num_readings is    *)
(* the number the diagnostic line "Processed {} readings" reports.         *)
(***************************************************************************)
\* while pos < data_len && data[pos] != stop_byte { pos += 1 }
RECURSIVE ScanUntil(_, _, _)
ScanUntil(slice, pos, stop_byte) ==
    IF pos < Len(slice) /\ slice[pos + 1] # stop_byte
    THEN ScanUntil(slice, pos + 1, stop_byte)
    ELSE pos

\* the next record starting at the newline instead of after it
NextNameStartNoSkip(val_end) == val_end

\* name_start = val_end + 1
NextNameStart(val_end) == val_end + 1

\* stations.entry(name).or_insert_with(|| WeatherStation::new())
\*     .add_measurement(measurement)
EntryAddMeasurement(table, name, m) ==
    [n \in DOMAIN table \cup {name} |->
        IF n = name
        THEN add_measurement(IF name \in DOMAIN table THEN table[name] ELSE new, m)
        ELSE table[n]]

RECURSIVE ScanRecords(_, _, _, _, _)
ScanRecords(slice, name_start, table, num_readings, checks) ==
    IF name_start < Len(slice)
    THEN LET name_end == ScanUntil(slice, name_start, SEMICOLON)
             name == SubSeq(slice, name_start + 1, name_end)
             val_start == name_end + 1
             val_end == ScanUntil(slice, val_start, NEWLINE)
             text == SubSeq(slice, val_start + 1, val_end)
         IN  IF val_start > Len(slice) \/ ParseIndexPanics(text)
             THEN [stations |-> table, num_readings |-> num_readings,
                   panicked |-> TRUE]
             ELSE LET value == parse_measurement(text)
                      old == IF name \in DOMAIN table THEN table[name] ELSE new
                  IN  IF checks /\ (value.overflow
                                      \/ AddOverflowsI32(old.sum, value.value))
                      THEN [stations |-> table, num_readings |-> num_readings,
                            panicked |-> TRUE]
                      ELSE ScanRecords(slice, NextNameStart(val_end),
                                       EntryAddMeasurement(table, name, value.value),
                                       num_readings + 1, checks)
    ELSE [stations |-> table, num_readings |-> num_readings, panicked |-> FALSE]

thread_runner(slice, checks) == ScanRecords(slice, 0, <<>>, 0, checks)

(***************************************************************************)
(* The OS mapping owned by MmappedFile.  state is "none" before            *)
(* MmappedFile::new, "failed" when new returned an error (no MmappedFile   *)
(* exists), "mapped" while the value lives and "released" after its drop.  *)
(***************************************************************************)
NoMapping == [state |-> "none", munmap_calls |-> 0, read_after_release |-> FALSE]

\* MmappedFile::new: mmap of a zero-length file fails (EINVAL); env.mmap is
\* whether metadata() and mmap succeed otherwise.
MmappedFile_new(m, content, os) ==
    IF os.mmap /\ Len(content) > 0
    THEN [m EXCEPT !.state = "mapped"]
    ELSE [m EXCEPT !.state = "failed"]

\* a drop that forgets munmap
drop_without_munmap(m) ==
    IF m.state = "mapped"
    THEN [m EXCEPT !.state = "released"]
    ELSE m

\* impl Drop for MmappedFile: runs when a live MmappedFile goes out of scope
drop(m) ==
    IF m.state = "mapped"
    THEN [m EXCEPT !.state = "released", !.munmap_calls = @ + 1]
    ELSE m

\* a read of bytes of the mapping through a slice
ReadMapping(m) ==
    [m EXCEPT !.read_after_release = @ \/ m.state # "mapped"]

(***************************************************************************)
(* std::str::from_utf8(name).unwrap(): whether the bytes are well-formed   *)
(* UTF-8 (Unicode 15, table 3-7); unwrap panics when they are not.         *)
(***************************************************************************)
IsContinuation(bytes, i) == i <= Len(bytes) /\ bytes[i] \in 128..191

RECURSIVE ValidUtf8From(_, _)
ValidUtf8From(bytes, i) ==
    IF i > Len(bytes)
    THEN TRUE
    ELSE LET b == bytes[i]
             second(lo, hi) == i + 1 <= Len(bytes) /\ bytes[i + 1] \in lo..hi
         IN  IF b < 128
             THEN ValidUtf8From(bytes, i + 1)
             ELSE IF b \in 194..223
             THEN IsContinuation(bytes, i + 1) /\ ValidUtf8From(bytes, i + 2)
             ELSE IF b \in 224..239
             THEN /\ second(IF b = 224 THEN 160 ELSE 128,
                            IF b = 237 THEN 159 ELSE 191)
                  /\ IsContinuation(bytes, i + 2)
                  /\ ValidUtf8From(bytes, i + 3)
             ELSE IF b \in 240..244
             THEN /\ second(IF b = 240 THEN 144 ELSE 128,
                            IF b = 244 THEN 143 ELSE 191)
                  /\ IsContinuation(bytes, i + 2)
                  /\ IsContinuation(bytes, i + 3)
                  /\ ValidUtf8From(bytes, i + 4)
             ELSE FALSE

from_utf8_is_ok(bytes) == ValidUtf8From(bytes, 1)

\* The arguments of the println! of one station: the name and the getters'
\* results (the text std formats them to is not modelled).
OutputLine(name, station) ==
    [name |-> name, min |-> min(station), max |-> max(station),
     mean |-> mean(station), count |-> station.count]

(***************************************************************************)
(* Inputs.                                                                 *)
(***************************************************************************)
PartitionBytes == {NEWLINE, 65}
Contents == SeqsOf(PartitionBytes, 0, MaxLen)

DigitBytes == {48, 49, 50, 51, 52, 57}
\* '-'? digit+ '.' digit
Measurements ==
    LET unsigned == {ip \o <<DOT, f>> :
                        ip \in SeqsOf(DigitBytes, 1, MaxIntDigits), f \in DigitBytes}
    IN  unsigned \cup {<<MINUS>> \o u : u \in unsigned}

\* Values of the variables a specification does not use.
partitionerVars == <<data, num_partitions, partitions>>
parserVars == <<measurement, parsed>>
accumulatorVars == <<ws1, ws2, fresh, s1, s2, rest, exact, overflow_checks>>
processVars == <<env, mapping, printed, exit_status>>

IdlePartitioner == data = <<>> /\ num_partitions = 1 /\ partitions = <<>>

IdleParser == measurement = <<>> /\ parsed = [value |-> 0, overflow |-> FALSE]

IdleAccumulators ==
    /\ ws1 = new
    /\ ws2 = new
    /\ fresh = new
    /\ s1 = <<>>
    /\ s2 = <<>>
    /\ rest = <<>>
    /\ exact = [hi |-> 0, lo |-> 0, n |-> 0]
    /\ overflow_checks = FALSE

IdleProcess ==
    /\ env = [open |-> TRUE, mmap |-> TRUE]
    /\ mapping = NoMapping
    /\ printed = {}
    /\ exit_status = -1

(***************************************************************************)
(* Specification of partition_into_slices on any content.                  *)
(***************************************************************************)
PartitionInit ==
    /\ pc = "start"
    /\ data \in Contents
    /\ num_partitions \in 1..MaxParts
    /\ partitions = <<>>
    /\ stations = <<>>
    /\ IdleParser /\ IdleAccumulators /\ IdleProcess

PartitionIntoSlices ==
    /\ pc = "start"
    /\ partitions' = partition_into_slices(data, num_partitions)
    /\ pc' = "partitioned"
    /\ UNCHANGED <<data, num_partitions, stations, parserVars, accumulatorVars,
                   processVars>>

PartitionNext == PartitionIntoSlices

SpecPartition == PartitionInit /\ [][PartitionNext]_vars

(***************************************************************************)
(* Specification of parse_measurement on the grammar '-'? digit+ '.' digit *)
(***************************************************************************)
ParseInit ==
    /\ pc = "start"
    /\ measurement \in Measurements
    /\ parsed = [value |-> 0, overflow |-> FALSE]
    /\ stations = <<>>
    /\ IdlePartitioner /\ IdleAccumulators /\ IdleProcess

ParseMeasurement ==
    /\ pc = "start"
    /\ parsed' = parse_measurement(measurement)
    /\ pc' = "parsed"
    /\ UNCHANGED <<measurement, stations, partitionerVars, accumulatorVars,
                   processVars>>

ParseNext == ParseMeasurement

SpecParse == ParseInit /\ [][ParseNext]_vars

(***************************************************************************)
(* Properties of partition_into_slices.                                    *)
(***************************************************************************)
RECURSIVE Concat(_, _)
Concat(content, slices) ==
    IF slices = <<>>
    THEN <<>>
    ELSE SliceBytes(content, Head(slices)) \o Concat(content, Tail(slices))

SliceEnd(slice) == slice.start + slice.len

\* C1: partition_into_slices(n) returns exactly n slices; slice 0 starts at
\* offset 0, every later slice starts where the previous one ended, the last
\* slice ends at len, and the slices concatenated in order are the content.
C1_SlicesTileContent ==
    pc = "partitioned" =>
        /\ Len(partitions) = num_partitions
        /\ partitions[1].start = 0
        /\ \A i \in 1..Len(partitions) : partitions[i].len >= 0
        /\ \A i \in 2..Len(partitions) :
               partitions[i].start = SliceEnd(partitions[i - 1])
        /\ SliceEnd(partitions[Len(partitions)]) = Len(data)
        /\ Concat(data, partitions) = data

\* n does not divide len, and the content is spread over several slices
C1_Witness ==
    /\ pc = "partitioned"
    /\ num_partitions = 4
    /\ Len(data) = 6
    /\ Cardinality({i \in 1..Len(partitions) : partitions[i].len > 0}) >= 3

\* offset e is the end of the content or follows a newline
AfterRecord(content, e) ==
    \/ e = Len(content)
    \/ e \in 1..Len(content) /\ content[e] = NEWLINE

\* C2: every slice ends at len or right after a newline, so every slice
\* starts at offset 0, right after a newline, or (empty) at the end of data.
C2_BoundariesRecordAligned ==
    pc = "partitioned" =>
        \A i \in 1..Len(partitions) :
            /\ AfterRecord(data, SliceEnd(partitions[i]))
            /\ \/ partitions[i].start = 0
               \/ partitions[i].start = Len(data) /\ partitions[i].len = 0
               \/ partitions[i].start \in 1..Len(data)
                    /\ data[partitions[i].start] = NEWLINE

\* a boundary found by the forward scan, strictly inside the content
C2_Witness ==
    /\ pc = "partitioned"
    /\ \E i \in 1..Len(partitions) :
           /\ SliceEnd(partitions[i]) < Len(data)
           /\ partitions[i].len > Len(data) \div num_partitions + 1
           /\ partitions[i].start > 0

(***************************************************************************)
(* Properties of parse_measurement.                                        *)
(***************************************************************************)
\* The value of a string of digits, most significant first, by positional
\* weight.
RECURSIVE Pow10(_)
Pow10(k) == IF k = 0 THEN 1 ELSE 10 * Pow10(k - 1)

DigitsValue(ds) ==
    LET W[i \in 0..Len(ds)] ==
            IF i = 0 THEN 0 ELSE W[i - 1] + (ds[i] - 48) * Pow10(Len(ds) - i)
    IN  W[Len(ds)]

\* ten times the decimal number a measurement '-'? digit+ '.' digit denotes
TimesTen(m) ==
    LET neg == m[1] = 45
        body == IF neg THEN Tail(m) ELSE m
        intpart == SubSeq(body, 1, Len(body) - 2)
        frac == body[Len(body)] - 48
        magnitude == DigitsValue(intpart) * 10 + frac
    IN  IF neg THEN -magnitude ELSE magnitude

\* C3: on '-'? digit+ '.' digit of magnitude at most 999.9, parse_measurement
\* returns ten times the decimal value and no intermediate i16 overflows.
C3_ParseScalesByTen ==
    (pc = "parsed" /\ TimesTen(measurement) \in -9999..9999) =>
        /\ parsed.value = TimesTen(measurement)
        /\ ~parsed.overflow

\* "-123.4" gives -1234
C3_Witness ==
    /\ pc = "parsed"
    /\ measurement = <<45, 49, 50, 51, 46, 52>>
    /\ parsed.value = -1234

(***************************************************************************)
(* Specification of the accumulator: two accumulators are built with       *)
(* add_measurement, one is merged into the other, and every measurement of *)
(* both is then added, in any order, to a fresh accumulator.               *)
(***************************************************************************)
MaxAdds == 2         \* most measurements added to one accumulator one by one

ScaledValues == {-53, 1, 100}

RemoveAt(seq, i) == SubSeq(seq, 1, i - 1) \o SubSeq(seq, i + 1, Len(seq))

AccInit ==
    /\ pc = "build"
    /\ ws1 = new
    /\ ws2 = new
    /\ fresh = new
    /\ s1 = <<>>
    /\ s2 = <<>>
    /\ rest = <<>>
    /\ exact = [hi |-> 0, lo |-> 0, n |-> 0]
    /\ overflow_checks = FALSE
    /\ stations = <<>>
    /\ IdlePartitioner /\ IdleParser /\ IdleProcess

AddMeasurement1 ==
    /\ pc = "build"
    /\ Len(s1) < MaxAdds
    /\ \E v \in ScaledValues :
           /\ ws1' = add_measurement(ws1, v)
           /\ s1' = Append(s1, v)
    /\ UNCHANGED <<pc, ws2, fresh, s2, rest, exact, overflow_checks, stations,
                   partitionerVars, parserVars, processVars>>

AddMeasurement2 ==
    /\ pc = "build"
    /\ Len(s2) < MaxAdds
    /\ \E v \in ScaledValues :
           /\ ws2' = add_measurement(ws2, v)
           /\ s2' = Append(s2, v)
    /\ UNCHANGED <<pc, ws1, fresh, s1, rest, exact, overflow_checks, stations,
                   partitionerVars, parserVars, processVars>>

\* ws1.merge(&ws2)
Merge12 ==
    /\ pc = "build"
    /\ ws1' = merge(ws1, ws2)
    /\ rest' = s1 \o s2
    /\ pc' = "merged12"
    /\ UNCHANGED <<ws2, fresh, s1, s2, exact, overflow_checks, stations,
                   partitionerVars, parserVars, processVars>>

\* ws2.merge(&ws1)
Merge21 ==
    /\ pc = "build"
    /\ ws2' = merge(ws2, ws1)
    /\ rest' = s1 \o s2
    /\ pc' = "merged21"
    /\ UNCHANGED <<ws1, fresh, s1, s2, exact, overflow_checks, stations,
                   partitionerVars, parserVars, processVars>>

\* fresh.add_measurement(v), for any measurement v of s1 or s2 not yet added
AddFresh ==
    /\ pc \in {"merged12", "merged21"}
    /\ \E i \in 1..Len(rest) :
           /\ fresh' = add_measurement(fresh, rest[i])
           /\ rest' = RemoveAt(rest, i)
    /\ UNCHANGED <<pc, ws1, ws2, s1, s2, exact, overflow_checks, stations,
                   partitionerVars, parserVars, processVars>>

AccNext ==
    \/ AddMeasurement1
    \/ AddMeasurement2
    \/ Merge12
    \/ Merge21
    \/ AddFresh

SpecAcc == AccInit /\ [][AccNext]_vars

\* C6: after A.merge(B), A has the min, max, sum and count of a fresh
\* accumulator to which all measurements of s1 and s2 were added, in any
\* order; B.merge(A) leaves B with the same.
C6_MergeIsUnionOfMeasurements ==
    /\ (pc = "merged12" /\ rest = <<>>) => ws1 = fresh
    /\ (pc = "merged21" /\ rest = <<>>) => ws2 = fresh

\* both accumulators held measurements, the merge changed min and sum
C6_Witness ==
    /\ pc = "merged12"
    /\ rest = <<>>
    /\ s1 = <<100, 1>>
    /\ s2 = <<-53, 100>>
    /\ ws1 = [min |-> -53, max |-> 100, sum |-> 148, count |-> 4]

SeqMin(seq) == CHOOSE x \in {seq[i] : i \in 1..Len(seq)} :
                   \A i \in 1..Len(seq) : x <= seq[i]
SeqMax(seq) == CHOOSE x \in {seq[i] : i \in 1..Len(seq)} :
                   \A i \in 1..Len(seq) : x >= seq[i]

\* C7: after the first addition the getters satisfy min() <= mean() <= max()
\* (the f32 results compared as the f64 they convert to exactly), min and max
\* being the smallest and largest measurement added so far.
C7_MinMeanMaxOfGetters ==
    (pc = "build" /\ ws1.count > 0) =>
        /\ ws1.min = SeqMin(s1)
        /\ ws1.max = SeqMax(s1)
        /\ FloatLe(Widen(min(ws1)), mean(ws1))
        /\ FloatLe(mean(ws1), Widen(max(ws1)))

\* The same order on the scaled integers the accumulator stores.
ScaledMinMeanMax ==
    (pc = "build" /\ ws1.count > 0) =>
        /\ ws1.min = SeqMin(s1)
        /\ ws1.max = SeqMax(s1)
        /\ ws1.min * ws1.count <= ws1.sum
        /\ ws1.sum <= ws1.max * ws1.count

(***************************************************************************)
(* Specification of the sum over many measurements.  An accumulator is fed *)
(* a few measurements and then repeatedly merged with an accumulator that  *)
(* holds the same measurements, which doubles what it has folded.  exact   *)
(* is the arithmetic sum hi * 65536 + lo of all of them, and n their       *)
(* number.                                                                 *)
(***************************************************************************)
MaxCount == 4194304  \* most measurements folded into one accumulator

LimbBase == 256 * 256

LargeValues == {-9999, 1, 9999}

ExactAdd(e, v) ==
    [hi |-> e.hi + ((e.lo + v) \div LimbBase),
     lo |-> (e.lo + v) % LimbBase,
     n |-> e.n + 1]

ExactPlus(e, f) ==
    [hi |-> e.hi + f.hi + ((e.lo + f.lo) \div LimbBase),
     lo |-> (e.lo + f.lo) % LimbBase,
     n |-> e.n + f.n]

ExactEquals(sum, e) == sum \div LimbBase = e.hi /\ sum % LimbBase = e.lo

SumInit ==
    /\ pc = "fold"
    /\ ws1 = new
    /\ ws2 = new
    /\ fresh = new
    /\ s1 = <<>>
    /\ s2 = <<>>
    /\ rest = <<>>
    /\ exact = [hi |-> 0, lo |-> 0, n |-> 0]
    /\ overflow_checks \in BOOLEAN
    /\ stations = <<>>
    /\ IdlePartitioner /\ IdleParser /\ IdleProcess

\* ws1.add_measurement(v)
SumAdd ==
    /\ pc = "fold"
    /\ ws1.count < MaxAdds
    /\ \E v \in LargeValues :
           /\ exact' = ExactAdd(exact, v)
           /\ IF overflow_checks /\ AddOverflowsI32(ws1.sum, v)
              THEN pc' = "panicked" /\ UNCHANGED ws1
              ELSE pc' = pc /\ ws1' = add_measurement(ws1, v)
    /\ UNCHANGED <<ws2, fresh, s1, s2, rest, overflow_checks, stations,
                   partitionerVars, parserVars, processVars>>

\* ws1.merge(&ws2), ws2 an accumulator of the same measurements as ws1
SumMergeEqual ==
    /\ pc = "fold"
    /\ ws1.count >= 1
    /\ 2 * ws1.count <= MaxCount
    /\ ws2' = ws1
    /\ exact' = ExactPlus(exact, exact)
    /\ IF overflow_checks /\ AddOverflowsI32(ws1.sum, ws1.sum)
       THEN pc' = "panicked" /\ UNCHANGED ws1
       ELSE pc' = pc /\ ws1' = merge(ws1, ws1)
    /\ UNCHANGED <<fresh, s1, s2, rest, overflow_checks, stations,
                   partitionerVars, parserVars, processVars>>

SumNext ==
    \/ SumAdd
    \/ SumMergeEqual

SpecSum == SumInit /\ [][SumNext]_vars

\* C10: over millions of in-range measurements folded by add_measurement and
\* merge the sum never overflows: the stored sum is the arithmetic sum of
\* the measurements and count is their number.
C10_SumIsExact ==
    /\ pc # "panicked"
    /\ pc = "fold" =>
           /\ ExactEquals(ws1.sum, exact)
           /\ ws1.count = exact.n

(***************************************************************************)
(* Specification of thread_runner on a slice of whole records.  s1 holds   *)
(* the records the slice is written from, as <<name, value text>> pairs.   *)
(***************************************************************************)
MaxRecords == 3      \* most records of a scanned slice

ScanNames == {<<65>>, <<66>>, <<65, 66>>}

\* "-5.3", "5.3", "10.0"
ScanValues == {<<45, 53, 46, 51>>, <<53, 46, 51>>, <<49, 48, 46, 48>>}

\* name;value\n for every record, the last newline left out when asked to
RECURSIVE Render(_, _)
Render(records, final_newline) ==
    IF records = <<>>
    THEN <<>>
    ELSE Head(records)[1] \o <<59>> \o Head(records)[2]
           \o (IF Len(records) > 1 \/ final_newline THEN <<10>> ELSE <<>>)
           \o Render(Tail(records), final_newline)

ScanInit ==
    /\ pc = "start"
    /\ s1 \in SeqsOf(ScanNames \X ScanValues, 0, MaxRecords)
    /\ \E final_newline \in BOOLEAN : data = Render(s1, final_newline)
    /\ num_partitions = 1
    /\ partitions = <<>>
    /\ stations = <<>>
    /\ ws1 = new
    /\ ws2 = new
    /\ fresh = new
    /\ s2 = <<>>
    /\ rest = <<>>
    /\ exact = [hi |-> 0, lo |-> 0, n |-> 0]
    /\ overflow_checks \in BOOLEAN
    /\ IdleParser /\ IdleProcess

ThreadRunner ==
    /\ pc = "start"
    /\ LET result == thread_runner(data, overflow_checks)
       IN  /\ stations' = result.stations
           /\ pc' = IF result.panicked THEN "panicked" ELSE "scanned"
    /\ UNCHANGED <<data, num_partitions, partitions, parserVars, accumulatorVars,
                   processVars>>

ScanNext == ThreadRunner

SpecScan == ScanInit /\ [][ScanNext]_vars

\* the scaled values of the records of one station, in file order
RECURSIVE ValuesOf(_, _)
ValuesOf(records, name) ==
    IF records = <<>>
    THEN <<>>
    ELSE (IF Head(records)[1] = name THEN <<TimesTen(Head(records)[2])>> ELSE <<>>)
           \o ValuesOf(Tail(records), name)

RECURSIVE SeqSum(_)
SeqSum(seq) == IF seq = <<>> THEN 0 ELSE Head(seq) + SeqSum(Tail(seq))

NamesOf(records) == {records[i][1] : i \in 1..Len(records)}

\* C4: on a slice of whole name;value records, thread_runner returns a table
\* whose keys are exactly the station names of the slice, each with the
\* count, sum, min and max of that station's records.
C4_TableAggregatesSlice ==
    pc # "panicked" /\
    (pc = "scanned" =>
        /\ DOMAIN stations = NamesOf(s1)
        /\ \A name \in NamesOf(s1) :
               LET values == ValuesOf(s1, name)
               IN  /\ stations[name].count = Len(values)
                   /\ stations[name].sum = SeqSum(values)
                   /\ stations[name].min = SeqMin(values)
                   /\ stations[name].max = SeqMax(values))

\* "AB;-5.3\nAB;5.3" (no final newline): one station, two records
C4_Witness ==
    /\ pc = "scanned"
    /\ data = <<65, 66, 59, 45, 53, 46, 51, 10, 65, 66, 59, 53, 46, 51>>
    /\ DOMAIN stations = {<<65, 66>>}
    /\ stations[<<65, 66>>] = [min |-> -53, max |-> 53, sum |-> 0, count |-> 2]

(***************************************************************************)
(* Specification of main on a file of well-formed records.  s1 holds the   *)
(* records of the file; env is what the OS answers to File::open and to    *)
(* metadata/mmap.  A panic unwinds main, which drops its locals.  The      *)
(* values are small enough that no arithmetic overflows in either build    *)
(* profile.                                                                *)
(***************************************************************************)
MaxFileRecords == 4  \* most records of the input file

\* "A", U+00E9 in UTF-8, and a byte that is no UTF-8
FileNames == {<<65>>, <<195, 169>>, <<255>>}

\* "-5.3", "10.0"
FileValues == {<<45, 53, 46, 51>>, <<49, 48, 46, 48>>}

EXIT_SUCCESS == 0
EXIT_FAILURE == 1
EXIT_PANIC == 101

MainInit ==
    /\ pc = "start"
    /\ s1 \in SeqsOf(FileNames \X FileValues, 0, MaxFileRecords)
    /\ \E final_newline \in BOOLEAN : data = Render(s1, final_newline)
    /\ env \in {[open |-> TRUE, mmap |-> TRUE], [open |-> TRUE, mmap |-> FALSE],
                [open |-> FALSE, mmap |-> FALSE]}
    /\ overflow_checks = FALSE
    /\ mapping = NoMapping
    /\ num_partitions = NUM_THREADS
    /\ partitions = <<>>
    /\ stations = <<>>
    /\ printed = {}
    /\ exit_status = -1
    /\ ws1 = new
    /\ ws2 = new
    /\ fresh = new
    /\ s2 = <<>>
    /\ rest = <<>>
    /\ exact = [hi |-> 0, lo |-> 0, n |-> 0]
    /\ IdleParser

mainIdle == <<data, num_partitions, parserVars, accumulatorVars, env>>

\* File::open(MEASUREMENTS_TXT).with_context(..)?
OpenFile ==
    /\ pc = "start"
    /\ IF env.open
       THEN pc' = "opened" /\ exit_status' = exit_status
       ELSE pc' = "exit" /\ exit_status' = EXIT_FAILURE
    /\ UNCHANGED <<mainIdle, mapping, partitions, stations, printed>>

\* MmappedFile::new(measurements_file).context("Failed to mmap file")?
MmapFile ==
    /\ pc = "opened"
    /\ mapping' = MmappedFile_new(mapping, data, env)
    /\ IF mapping'.state = "mapped"
       THEN pc' = "mapped" /\ exit_status' = exit_status
       ELSE pc' = "exit" /\ exit_status' = EXIT_FAILURE
    /\ UNCHANGED <<mainIdle, partitions, stations, printed>>

\* let partitions = measurements.partition_into_slices(NUM_THREADS)
Partition ==
    /\ pc = "mapped"
    /\ partitions' = partition_into_slices(data, num_partitions)
    /\ mapping' = ReadMapping(mapping)
    /\ pc' = "partitioned"
    /\ UNCHANGED <<mainIdle, stations, printed, exit_status>>

\* let stations = thread_runner(partitions[0])
Scan ==
    /\ pc = "partitioned"
    /\ LET result == thread_runner(SliceBytes(data, partitions[1]), overflow_checks)
       IN  /\ stations' = result.stations
           /\ pc' = IF result.panicked THEN "panic" ELSE "scanned"
    /\ mapping' = ReadMapping(mapping)
    /\ UNCHANGED <<mainIdle, partitions, printed, exit_status>>

Unprinted == {name \in DOMAIN stations : \A line \in printed : line.name # name}

\* one turn of for (name, station) in stations.iter() { println!(..) }, the
\* HashMap yielding its entries in any order
PrintStation ==
    /\ pc = "scanned"
    /\ \E name \in Unprinted :
           IF from_utf8_is_ok(name)
           THEN /\ printed' = printed \cup {OutputLine(name, stations[name])}
                /\ pc' = pc
           ELSE /\ printed' = printed
                /\ pc' = "panic"
    /\ mapping' = ReadMapping(mapping)
    /\ UNCHANGED <<mainIdle, partitions, stations, exit_status>>

\* Ok(()): the locals go out of scope, measurements last
ReturnOk ==
    /\ pc = "scanned"
    /\ Unprinted = {}
    /\ mapping' = drop(mapping)
    /\ pc' = "exit"
    /\ exit_status' = EXIT_SUCCESS
    /\ UNCHANGED <<mainIdle, partitions, stations, printed>>

\* a panic unwinds main and drops measurements
Unwind ==
    /\ pc = "panic"
    /\ mapping' = drop(mapping)
    /\ pc' = "exit"
    /\ exit_status' = EXIT_PANIC
    /\ UNCHANGED <<mainIdle, partitions, stations, printed>>

MainNext ==
    \/ OpenFile
    \/ MmapFile
    \/ Partition
    \/ Scan
    \/ PrintStation
    \/ ReturnOk
    \/ Unwind

SpecMain == MainInit /\ [][MainNext]_vars

\* The accumulator of one station over all the computed partitions: the
\* merge of the partition-local accumulators thread_runner gives for it.
RECURSIVE MergeOverPartitions(_, _, _)
MergeOverPartitions(content, slices, name) ==
    IF slices = <<>>
    THEN new
    ELSE LET table == thread_runner(SliceBytes(content, Head(slices)), FALSE).stations
             others == MergeOverPartitions(content, Tail(slices), name)
         IN  IF name \in DOMAIN table THEN merge(table[name], others) ELSE others

\* C5: the reported aggregates cover the whole file: every station name of
\* the file has exactly one reported line, with the min, max, mean and count
\* of the merge of its partition-local accumulators over all partitions.
C5_ReportCoversWholeFile ==
    (pc = "exit" /\ exit_status = EXIT_SUCCESS) =>
        \A name \in NamesOf(s1) :
            /\ Cardinality({line \in printed : line.name = name}) = 1
            /\ OutputLine(name, MergeOverPartitions(data, partitions, name))
                   \in printed

\* C8: munmap is called exactly once for a mapping MmappedFile::new created,
\* when main returns (normally or with an error), never twice, never for a
\* mapping that was not created, and the mapping is not read after it.
C8_MappingReleasedOnce ==
    /\ mapping.munmap_calls <= 1
    /\ mapping.munmap_calls = 1 => mapping.state = "released"
    /\ mapping.state \in {"none", "failed"} => mapping.munmap_calls = 0
    /\ ~mapping.read_after_release
    /\ pc = "exit" =>
           /\ mapping.state \in {"none", "failed", "released"}
           /\ mapping.state = "released" => mapping.munmap_calls = 1

\* a normal return after partitioning, scanning and printing a mapped file
C8_Witness ==
    /\ pc = "exit"
    /\ exit_status = EXIT_SUCCESS
    /\ Cardinality(printed) = 2
    /\ mapping.state = "released"
    /\ mapping.munmap_calls = 1

\* An early error return is reachable too: the mapping was not created and
\* nothing is unmapped.
FailedMappingNotUnmapped ==
    /\ pc = "exit"
    /\ exit_status = EXIT_FAILURE
    /\ mapping.state = "failed"
    /\ mapping.munmap_calls = 0

CanOpenAndMap == env.open /\ env.mmap /\ Len(data) > 0

\* C9: the run ends in an error (non-zero exit) exactly when the file cannot
\* be opened or mapped; on a file of the input format that can be, it
\* prints the aggregates of every station it scanned and exits zero.
C9_ErrorOnlyWhenNoFile ==
    pc = "exit" =>
        /\ exit_status # EXIT_SUCCESS <=> ~CanOpenAndMap
        /\ CanOpenAndMap =>
               \A name \in DOMAIN stations : \E line \in printed : line.name = name

====
